---------------------------- MODULE Spec2Model ----------------------------
(***************************************************************************)
(* Conversion of an HLL++ estimator to the padded PipelineDB HyperLogLog   *)
(* byte layout (AsPipeline).  The repository holds three revisions of the  *)
(* converter:                                                              *)
(*   Rev1  src/unnamed/part_000 lines 1-142    one monolithic AsPipeline   *)
(*   Rev2  src/pipeline.go                     convertToDense/ToSparse     *)
(*   Rev3  src/unnamed/part_000 lines 144-337  convertToDense/ToExplicit   *)
(* The estimator itself (HLLPP, Count, flushTmpSet, the sparse reader,     *)
(* decodeHash, getRegister, RegisterSlice) lives outside these files and   *)
(* is modelled from the design document.                                   *)
(***************************************************************************)
EXTENDS Integers, Sequences, FiniteSets, TLC

\* ------------------------------------------------------------ bounds
MaxPrecision == 4      \* largest precision explored
MaxExplicit  == 3      \* explored value of the explicit-mode threshold
MaxFailAt    == 2      \* a failing sink fails one of its first MaxFailAt writes

\* ------------------------------------------------------------ constants
MinPrecision == 4      \* smallest precision an estimator is built with

PipelineDenseDirty    == 100   \* 'd'
PipelineDenseClean    == 68    \* 'D'
PipelineExplicitDirty == 101   \* 'e'
PipelineExplicitClean == 69    \* 'E'

pipelineBitsPerRegister == 6

\* 600 in the source; the threshold is explored at MaxExplicit so that
\* lists below, at and above it are all reachable.
maxExplicitRegisters == MaxExplicit

Rev1 == "part_000:1-142"
Rev2 == "pipeline.go"
Rev3 == "part_000:144-337"
Revisions == {Rev1, Rev2, Rev3}

\* ------------------------------------------------------------ Go integers
Pow2(n) == 2 ^ n

\* The model checker's integers are 32-bit: every uint32 and uint64 of the
\* model stays below 2^31 (register indices below 2^MaxPrecision, words below
\* 2^(MaxPrecision+8), cardinalities from CardSet), where the conversion to
\* uint32 changes nothing.
uint8(x)  == x % 256
uint32(x) == x

Shl(x, k) == x * Pow2(k)          \* x << k   (before truncation)
Shr(x, k) == x \div Pow2(k)       \* x >> k

RECURSIVE BitAnd(_, _)
BitAnd(a, b) ==
    IF a = 0 \/ b = 0 THEN 0
    ELSE (a % 2) * (b % 2) + 2 * BitAnd(a \div 2, b \div 2)

RECURSIVE BitOr(_, _)
BitOr(a, b) ==
    IF a = 0 THEN b
    ELSE IF b = 0 THEN a
    ELSE (IF a % 2 = 1 \/ b % 2 = 1 THEN 1 ELSE 0) + 2 * BitOr(a \div 2, b \div 2)

\* ^x on a uint32, then truncated to a byte: uint8(^x)
NotByte(x) == 255 - uint8(x)

\* binary.LittleEndian encoding of x in n bytes
RECURSIVE LittleEndian(_, _)
LittleEndian(x, n) ==
    IF n = 0 THEN << >> ELSE << x % 256 >> \o LittleEndian(x \div 256, n - 1)

Zeros(n) == [i \in 1..n |-> 0]

\* ------------------------------------------------------------ the sink
\* bytes.Buffer as an io.Writer.  w = [bytes, n]: the bytes held and the
\* number of Write calls made during this conversion.  failAt = 0 is the
\* bytes.Buffer of the code, which never returns an error; failAt = k > 0 is
\* a sink whose k-th write is rejected (nothing appended, err # nil).  A write
\* that is not rejected takes all of its bytes.
NewBuffer(n) == [bytes |-> << >>, n |-> n]

Write(w, bs, failAt) ==
    LET k == w.n + 1 IN
    IF k = failAt
    THEN [w |-> [bytes |-> w.bytes, n |-> k], err |-> TRUE]
    ELSE [w |-> [bytes |-> w.bytes \o bs, n |-> k], err |-> FALSE]

\* ------------------------------------------------------------ the preamble
\* binary.Write(&ret, binary.LittleEndian, &p) of a pipelineHLL: the fields in
\* declaration order, blank (_) fields written as zeros.
pipelineHLL_NoPadding(p) ==
    << p.Encoding >> \o LittleEndian(p.Card, 8) \o << p.P >> \o LittleEndian(p.Mlen, 4)

pipelineHLL(p) ==
    << p.Encoding >> \o Zeros(3)
    \o LittleEndian(p.Card, 8)
    \o << p.P >> \o Zeros(3)
    \o LittleEndian(p.Mlen, 4)

\* ------------------------------------------------------------ the estimator
\* h = [sparse, p, m, data, tmpSet, sparseLength, card]
\*   dense-backed : data is the register array, data[r + 1] the value of r
\*   sparse-backed: data is the list of decoded (reg, val) entries,
\*                  tmpSet the entries added but not merged into data yet
\*   card         : what Count() answers for this estimator
Count(h) == h.card

getRegister(data, idx) == data[idx + 1]

decodeHash(entry, p) == entry

Max(a, b) == IF a >= b THEN a ELSE b

RECURSIVE MergeEntry(_, _)
MergeEntry(list, e) ==
    IF list = << >> THEN << e >>
    ELSE IF Head(list).reg = e.reg
         THEN << [reg |-> e.reg, val |-> Max(Head(list).val, e.val)] >> \o Tail(list)
         ELSE << Head(list) >> \o MergeEntry(Tail(list), e)

RECURSIVE MergeAll(_, _)
MergeAll(list, set) ==
    IF set = {} THEN list
    ELSE LET e == CHOOSE x \in set : \A y \in set : x.reg <= y.reg
         IN MergeAll(MergeEntry(list, e), set \ {e})

\* merges the pending entries into the sparse list
flushTmpSet(h) ==
    LET merged == MergeAll(h.data, h.tmpSet) IN
    [h EXCEPT !.data = merged, !.tmpSet = {}, !.sparseLength = Len(merged)]

\* ------------------------------------------------------------ regIterator
newRegIterator(h) == [hll |-> h, sr |-> 1, idx |-> 0]

done(i) ==
    IF i.hll.sparse THEN i.sr > Len(i.hll.data)
    ELSE i.idx = i.hll.m

next(i) ==
    IF i.hll.sparse
    THEN LET e == decodeHash(i.hll.data[i.sr], i.hll.p)
         IN [reg |-> e.reg, val |-> e.val, it |-> [i EXCEPT !.sr = i.sr + 1]]
    ELSE [reg |-> i.idx,
          val |-> getRegister(i.hll.data, i.idx),
          it  |-> [i EXCEPT !.idx = i.idx + 1]]

\* ------------------------------------------------------------ dense packing
\* _p = [bytes, touched, panic]: the slice, the byte indices written so far
\* and whether an index was out of range.
MakeBytes(n) == [bytes |-> Zeros(n), touched |-> {}, panic |-> FALSE]

\* the same write without the part of the value that spills into the next byte
setDensePipelineRegister_NoSpill(_p, regnum, val) ==
    LET _byte == uint32(regnum * pipelineBitsPerRegister) \div 8
        _fb   == BitAnd(uint32(regnum * pipelineBitsPerRegister), 7)
        hllRegisterMax == Shl(1, pipelineBitsPerRegister) - 1
        b0a == BitAnd(_p.bytes[_byte + 1], NotByte(uint32(Shl(hllRegisterMax, _fb))))
        b0b == BitOr(b0a, uint8(uint32(Shl(val, _fb))))
    IN  IF _p.panic \/ _byte + 1 >= Len(_p.bytes)
        THEN [_p EXCEPT !.panic = TRUE]
        ELSE [bytes   |-> [_p.bytes EXCEPT ![_byte + 1] = b0b],
              touched |-> _p.touched \cup {_byte, _byte + 1},
              panic   |-> FALSE]

setDensePipelineRegister(_p, regnum, val) ==
    LET _byte == uint32(regnum * pipelineBitsPerRegister) \div 8
        _fb   == BitAnd(uint32(regnum * pipelineBitsPerRegister), 7)
        _fb8  == 8 - _fb
        _v    == val
        hllRegisterMax == Shl(1, pipelineBitsPerRegister) - 1
        b0 == _p.bytes[_byte + 1]
        b0a == BitAnd(b0, NotByte(uint32(Shl(hllRegisterMax, _fb))))
        b0b == BitOr(b0a, uint8(uint32(Shl(_v, _fb))))
        b1 == _p.bytes[_byte + 2]
        b1a == BitAnd(b1, NotByte(Shr(hllRegisterMax, _fb8)))
        b1b == BitOr(b1a, uint8(Shr(_v, _fb8)))
    IN  IF _p.panic \/ _byte + 1 >= Len(_p.bytes)
        THEN [_p EXCEPT !.panic = TRUE]
        ELSE [bytes   |-> [_p.bytes EXCEPT ![_byte + 1] = b0b, ![_byte + 2] = b1b],
              touched |-> _p.touched \cup {_byte, _byte + 1},
              panic   |-> FALSE]

\* for it := newRegIterator(h); !it.done(); { setDensePipelineRegister(...) }
RECURSIVE DenseLoop(_, _)
DenseLoop(it, data) ==
    IF done(it) THEN data
    ELSE LET n == next(it)
         IN DenseLoop(n.it, setDensePipelineRegister(data, n.reg, n.val))


\* ------------------------------------------------------------ results
\* What one AsPipeline call leaves behind: the returned slice (isNil when the
\* code returns nil) and error, the estimator after the call, and a record of
\* what the call did: which payload it wrote, the size of the dense buffer it
\* allocated, the byte indices it wrote there, whether an index was out of
\* range, how many register traversals it started and how many writes it
\* made to the sink.
Result(bytes, isNil, err, h, kind, data, traversals, writes) ==
    [bytes |-> bytes, isNil |-> isNil, err |-> err, post |-> h, kind |-> kind,
     alloc |-> Len(data.bytes), touched |-> data.touched, panic |-> data.panic,
     traversals |-> traversals, writes |-> writes]

NoData == [bytes |-> << >>, touched |-> {}, panic |-> FALSE]

\* uint32(reg<<8) | uint32(val&0xff)
packed(reg, val) == BitOr(uint32(Shl(reg, 8)), uint32(BitAnd(val, 255)))

\* the dense buffer without its guard byte
DenseMlen_NoGuard(h) == (h.m * pipelineBitsPerRegister) \div 8

\* Mlen: 1 + h.m*pipelineBitsPerRegister/8
DenseMlen(h) == 1 + (h.m * pipelineBitsPerRegister) \div 8

\* the explicit length counted in entries instead of bytes
SparseMlen_Entries(h) == h.sparseLength

\* Mlen: 4 * h.sparseLength
SparseMlen(h) == 4 * h.sparseLength

\* ------------------------------------------------------------ Rev2 and Rev3
\* convertToDense is the same text in pipeline.go and in part_000:204-232.
\* n0: sink writes already made by this conversion; t0: traversals started.
convertToDense(h, dirty, failAt, n0, t0) ==
    LET p == [Card |-> Count(h),
              Mlen |-> DenseMlen(h),
              P    |-> h.p,
              Encoding |-> IF dirty THEN PipelineDenseDirty ELSE PipelineDenseClean]
        w1 == Write(NewBuffer(n0), pipelineHLL(p), failAt)
        data == DenseLoop(newRegIterator(h), MakeBytes(p.Mlen))
        w2 == Write(w1.w, data.bytes, failAt)
    IN  IF w1.err
        THEN Result(<< >>, TRUE, TRUE, h, "none", NoData, t0, w1.w.n)
        ELSE IF data.panic
        THEN Result(<< >>, TRUE, FALSE, h, "none", data, t0 + 1, w1.w.n)
        ELSE Result(w2.w.bytes, FALSE, w2.err, h, "dense", data, t0 + 1, w2.w.n)

\* for it := newRegIterator(h); !it.done(); { binary.Write(&ret, ..., word) }
\* the error of binary.Write is not looked at.
RECURSIVE SparseLoop(_, _, _)
SparseLoop(it, w, failAt) ==
    IF done(it) THEN w
    ELSE LET n == next(it)
             r == Write(w, LittleEndian(packed(n.reg, n.val), 4), failAt)
         IN SparseLoop(n.it, r.w, failAt)

convertToSparse(h, dirty, failAt) ==
    LET p == [Card |-> Count(h),
              Mlen |-> SparseMlen(h),
              P    |-> h.p,
              Encoding |-> IF dirty THEN PipelineExplicitDirty ELSE PipelineExplicitClean]
        w1 == Write(NewBuffer(0), pipelineHLL(p), failAt)
        w2 == SparseLoop(newRegIterator(h), w1.w, failAt)
    IN  IF w1.err
        THEN Result(<< >>, TRUE, TRUE, h, "none", NoData, 0, w1.w.n)
        ELSE Result(w2.bytes, FALSE, FALSE, h, "explicit", NoData, 1, w2.n)

AsPipeline2(h, awd, dirty, failAt) ==
    IF ~h.sparse \/ awd
    THEN convertToDense(h, dirty, failAt, 0, 0)
    ELSE convertToSparse(h, dirty, failAt)

\* ------------------------------------------------------------ Rev3
\* sort.Sort(registers): ascending by Index
RECURSIVE InsertByIndex(_, _)
InsertByIndex(sorted, e) ==
    IF sorted = << >> THEN << e >>
    ELSE IF e.Index < Head(sorted).Index THEN << e >> \o sorted
    ELSE << Head(sorted) >> \o InsertByIndex(Tail(sorted), e)

RECURSIVE SortByIndex(_)
SortByIndex(registers) ==
    IF registers = << >> THEN << >>
    ELSE InsertByIndex(SortByIndex(Tail(registers)), Head(registers))

\* the accumulation loop without the threshold
RECURSIVE ExplicitLoop_NoLimit(_, _)
ExplicitLoop_NoLimit(it, registers) ==
    IF done(it) THEN [overflow |-> FALSE, registers |-> registers]
    ELSE LET n == next(it)
         IN ExplicitLoop_NoLimit(n.it, Append(registers, [Index |-> n.reg, Value |-> n.val]))

\* the accumulation loop of convertToExplicit; overflow is its early return
RECURSIVE ExplicitLoop(_, _)
ExplicitLoop(it, registers) ==
    IF done(it) THEN [overflow |-> FALSE, registers |-> registers]
    ELSE LET n == next(it)
             regs == Append(registers, [Index |-> n.reg, Value |-> n.val])
         IN IF Len(regs) >= maxExplicitRegisters
            THEN [overflow |-> TRUE, registers |-> regs]
            ELSE ExplicitLoop(n.it, regs)

\* for i := range registers { binary.Write(&regBuf, ..., packed) } with the
\* error returned at once
RECURSIVE PackLoop(_, _, _)
PackLoop(registers, w, failAt) ==
    IF registers = << >> THEN [w |-> w, err |-> FALSE]
    ELSE LET r == Write(w, LittleEndian(packed(Head(registers).Index,
                                               Head(registers).Value), 4), failAt)
         IN IF r.err THEN r ELSE PackLoop(Tail(registers), r.w, failAt)

\* the conversion reading the registers before the pending entries are merged
convertToExplicit_LateFlush(h, dirty, failAt) ==
    LET h1 == IF h.sparse THEN flushTmpSet(h) ELSE h
        acc == ExplicitLoop(newRegIterator(h), << >>)
        regBuf == PackLoop(SortByIndex(acc.registers), NewBuffer(0), failAt)
        p == [Card |-> Count(h1),
              Mlen |-> uint32(Len(regBuf.w.bytes)),
              P    |-> h1.p,
              Encoding |-> IF dirty THEN PipelineExplicitDirty ELSE PipelineExplicitClean]
        w1 == Write(NewBuffer(regBuf.w.n), pipelineHLL(p), failAt)
        w2 == Write(w1.w, regBuf.w.bytes, failAt)
    IN  IF acc.overflow THEN convertToDense(h1, dirty, failAt, 0, 1)
        ELSE IF regBuf.err
        THEN Result(<< >>, TRUE, TRUE, h1, "none", NoData, 1, regBuf.w.n)
        ELSE IF w1.err
        THEN Result(<< >>, TRUE, TRUE, h1, "none", NoData, 1, w1.w.n)
        ELSE IF w2.err
        THEN Result(<< >>, TRUE, TRUE, h1, "none", NoData, 1, w2.w.n)
        ELSE Result(w2.w.bytes, FALSE, FALSE, h1, "explicit", NoData, 1, w2.w.n)

convertToExplicit(h, dirty, failAt) ==
    LET h1 == IF h.sparse THEN flushTmpSet(h) ELSE h
        acc == ExplicitLoop(newRegIterator(h1), << >>)
        regBuf == PackLoop(SortByIndex(acc.registers), NewBuffer(0), failAt)
        p == [Card |-> Count(h1),
              Mlen |-> uint32(Len(regBuf.w.bytes)),
              P    |-> h1.p,
              Encoding |-> IF dirty THEN PipelineExplicitDirty ELSE PipelineExplicitClean]
        w1 == Write(NewBuffer(regBuf.w.n), pipelineHLL(p), failAt)
        w2 == Write(w1.w, regBuf.w.bytes, failAt)
    IN  IF acc.overflow THEN convertToDense(h1, dirty, failAt, 0, 1)
        ELSE IF regBuf.err
        THEN Result(<< >>, TRUE, TRUE, h1, "none", NoData, 1, regBuf.w.n)
        ELSE IF w1.err
        THEN Result(<< >>, TRUE, TRUE, h1, "none", NoData, 1, w1.w.n)
        ELSE IF w2.err
        THEN Result(<< >>, TRUE, TRUE, h1, "none", NoData, 1, w2.w.n)
        ELSE Result(w2.w.bytes, FALSE, FALSE, h1, "explicit", NoData, 1, w2.w.n)

AsPipeline3(h, awd, dirty, failAt) ==
    IF ~h.sparse \/ awd
    THEN convertToDense(h, dirty, failAt, 0, 0)
    ELSE convertToExplicit(h, dirty, failAt)

\* ------------------------------------------------------------ Rev1
\* the one loop of the monolithic AsPipeline: registers go to data when
\* dense, words go to ret (errors not looked at) otherwise
RECURSIVE MixedLoop(_, _, _, _, _)
MixedLoop(it, dense, data, w, failAt) ==
    IF done(it) THEN [data |-> data, w |-> w]
    ELSE LET n == next(it)
         IN IF dense
            THEN MixedLoop(n.it, dense, setDensePipelineRegister(data, n.reg, n.val),
                           w, failAt)
            ELSE MixedLoop(n.it, dense, data,
                           Write(w, LittleEndian(packed(n.reg, n.val), 4), failAt).w,
                           failAt)

AsPipeline1(h, awd, dirty, failAt) ==
    LET dense == ~h.sparse \/ awd
        p == [Card |-> Count(h),
              P    |-> h.p,
              Encoding |-> IF dense
                           THEN IF dirty THEN PipelineDenseDirty ELSE PipelineDenseClean
                           ELSE IF dirty THEN PipelineExplicitDirty ELSE PipelineDenseClean,
              Mlen |-> IF dense THEN DenseMlen(h)
                       ELSE SparseMlen(h)]
        data0 == IF dense THEN MakeBytes(p.Mlen) ELSE NoData
        w1 == Write(NewBuffer(0), pipelineHLL(p), failAt)
        l  == MixedLoop(newRegIterator(h), dense, data0, w1.w, failAt)
        w2 == Write(l.w, l.data.bytes, failAt)
    IN  IF w1.err
        THEN Result(<< >>, TRUE, TRUE, h, "none", NoData, 0, w1.w.n)
        ELSE IF l.data.panic
        THEN Result(<< >>, TRUE, FALSE, h, "none", l.data, 1, l.w.n)
        ELSE IF dense
        THEN IF w2.err
             THEN Result(<< >>, TRUE, TRUE, h, "none", l.data, 1, w2.w.n)
             ELSE Result(w2.w.bytes, FALSE, FALSE, h, "dense", l.data, 1, w2.w.n)
        ELSE Result(l.w.bytes, FALSE, FALSE, h, "explicit", NoData, 1, l.w.n)

\* ------------------------------------------------------------ inputs
Precisions == MinPrecision..MaxPrecision

\* register values and the registers that carry them: one register of each
\* bit alignment (r*6 mod 8 = 0, 6, 4) and the last one, whose second byte
\* is the guard byte
RegVals == {0, 37, 63}
DenseIdx(m) == {0, 1, 2, m - 1}

CardSet == {258, Pow2(30) + 7}

DenseEstimators ==
    { [sparse |-> FALSE, p |-> p, m |-> Pow2(p),
       data |-> [i \in 1..Pow2(p) |-> IF i <= 3 THEN f[i - 1]
                                       ELSE IF i = Pow2(p) THEN f[3] ELSE 0],
       tmpSet |-> {}, sparseLength |-> 0, card |-> c]
      : p \in Precisions, f \in [0..3 -> RegVals], c \in CardSet }

\* sparse entries after decoding: distinct register indices, in the order
\* the sparse reader happens to yield them
SparseEntries(m) ==
    { [reg |-> 0, val |-> 5], [reg |-> 3, val |-> 63],
      [reg |-> 10, val |-> 12], [reg |-> m - 1, val |-> 1] }

PendingEntries == { [reg |-> 7, val |-> 9], [reg |-> 10, val |-> 50] }

MaxEntries == MaxExplicit + 1

\* lists of distinct registers, ascending or descending by index
SparseLists(m) ==
    UNION { { s \in [1..k -> SparseEntries(m)] :
                \/ \A i \in 1..(k - 1) : s[i].reg < s[i + 1].reg
                \/ \A i \in 1..(k - 1) : s[i].reg > s[i + 1].reg }
            : k \in 0..MaxEntries }

SparseEstimators ==
    UNION { { [sparse |-> TRUE, p |-> p, m |-> Pow2(p), data |-> s,
               tmpSet |-> t, sparseLength |-> Len(s), card |-> c]
              : s \in SparseLists(Pow2(p)), t \in SUBSET PendingEntries, c \in CardSet }
            : p \in Precisions }

Estimators == DenseEstimators \cup SparseEstimators

\* ------------------------------------------------------------ state
\* The feature flags are compile-time constants in Rev1 (alwaysWriteDense =
\* true, writeDirtyEncoding = true) and Rev2 (true, false); Rev3 has
\* alwaysWriteDense = false and the variable WriteDirtyEncoding.  They are
\* switches of the build, so every setting is an initial state here.
VARIABLES
    revision,            \* which revision of the converter is built
    alwaysWriteDense,    \* feature flag
    writeDirtyEncoding,  \* feature flag (the variable WriteDirtyEncoding in Rev3)
    h,                   \* the estimator
    res,                 \* what the last AsPipeline call returned and did
    last,                \* the estimator and flags the last call started from
    called               \* an AsPipeline call has been made

vars == << revision, alwaysWriteDense, writeDirtyEncoding, h, res, last, called >>

NoResult == Result(<< >>, TRUE, FALSE, h, "none", NoData, 0, 0)

\* what is remembered of the call before the last one
NoPrev == [called |-> FALSE, dirty |-> FALSE, bytes |-> << >>, isNil |-> TRUE, err |-> FALSE]

Init ==
    /\ revision \in Revisions
    /\ alwaysWriteDense \in BOOLEAN
    /\ writeDirtyEncoding \in BOOLEAN
    /\ h \in Estimators
    /\ res = NoResult
    /\ last = [h |-> h, dirty |-> writeDirtyEncoding, failAt |-> 0, prev |-> NoPrev]
    /\ called = FALSE

\* the revision's AsPipeline on a sink whose failAt-th write is rejected
\* (failAt = 0: no write is rejected)
Convert(failAt) ==
    CASE revision = Rev1 -> AsPipeline1(h, alwaysWriteDense, writeDirtyEncoding, failAt)
      [] revision = Rev2 -> AsPipeline2(h, alwaysWriteDense, writeDirtyEncoding, failAt)
      [] revision = Rev3 -> AsPipeline3(h, alwaysWriteDense, writeDirtyEncoding, failAt)

\* what the next call remembers of this one
Remember(failAt) ==
    [h |-> h, dirty |-> writeDirtyEncoding, failAt |-> failAt,
     prev |-> [called |-> called, dirty |-> last.dirty,
               bytes |-> res.bytes, isNil |-> res.isNil, err |-> res.err]]

\* AsPipeline on the bytes.Buffer of the code
AsPipeline ==
    /\ res' = Convert(0)
    /\ h' = res'.post
    /\ last' = Remember(0)
    /\ called' = TRUE
    /\ UNCHANGED << revision, alwaysWriteDense, writeDirtyEncoding >>

\* AsPipeline on a sink that rejects one write
AsPipelineFailing ==
    \E k \in 1..MaxFailAt :
        /\ res' = Convert(k)
        /\ h' = res'.post
        /\ last' = Remember(k)
        /\ called' = TRUE
        /\ UNCHANGED << revision, alwaysWriteDense, writeDirtyEncoding >>

\* WriteDirtyEncoding is an exported variable in Rev3
SetWriteDirtyEncoding ==
    /\ revision = Rev3
    /\ writeDirtyEncoding' = ~writeDirtyEncoding
    /\ UNCHANGED << revision, alwaysWriteDense, h, res, last, called >>

Next == AsPipeline \/ SetWriteDirtyEncoding

Spec == Init /\ [][Next]_vars

NextFailing == AsPipeline \/ AsPipelineFailing \/ SetWriteDirtyEncoding

SpecFailing == Init /\ [][NextFailing]_vars

\* ------------------------------------------------------------ reading the output
\* little-endian decoding, from the most significant byte down
RECURSIVE FromLittleEndian(_)
FromLittleEndian(bs) ==
    IF bs = << >> THEN 0 ELSE Head(bs) + 256 * FromLittleEndian(Tail(bs))

PreambleLen == 20

\* the last call returned bytes and no error
Successful == called /\ ~res.err /\ ~res.isNil /\ ~res.panic

Tag          == res.bytes[1]
CardField    == FromLittleEndian(SubSeq(res.bytes, 5, 12))
PField       == res.bytes[13]
MlenField    == FromLittleEndian(SubSeq(res.bytes, 17, 20))
Payload      == SubSeq(res.bytes, PreambleLen + 1, Len(res.bytes))

DenseTags    == {PipelineDenseClean, PipelineDenseDirty}
ExplicitTags == {PipelineExplicitClean, PipelineExplicitDirty}
DirtyTags    == {PipelineDenseDirty, PipelineExplicitDirty}

\* bit k of a byte sequence, least significant bit of byte 0 first
BitOf(bs, k) == (bs[(k \div 8) + 1] \div Pow2(k % 8)) % 2

\* the 6 bits at bit offset r*6
ReadRegister(bs, r) ==
    BitOf(bs, 6 * r) + 2 * BitOf(bs, 6 * r + 1) + 4 * BitOf(bs, 6 * r + 2)
    + 8 * BitOf(bs, 6 * r + 3) + 16 * BitOf(bs, 6 * r + 4) + 32 * BitOf(bs, 6 * r + 5)

\* the value the source lists for register r (0 when it lists none)
RegisterValue(e, r) ==
    IF e.sparse
    THEN IF \E i \in 1..Len(e.data) : e.data[i].reg = r
         THEN e.data[CHOOSE i \in 1..Len(e.data) : e.data[i].reg = r].val
         ELSE 0
    ELSE e.data[r + 1]

\* the 4-byte words of an explicit payload
WordCount == Len(Payload) \div 4
Word(i)   == FromLittleEndian(SubSeq(Payload, 4 * i - 3, 4 * i))

C2_PayloadLength ==
    Successful =>
        /\ Len(res.bytes) = PreambleLen + MlenField
        /\ res.kind = "explicit" => MlenField = 4 * Len(h.data)
        /\ res.kind = "dense" => MlenField = res.alloc

\* an explicit payload of two entries, one of them merged in by this call
C2_Witness ==
    /\ Successful /\ res.kind = "explicit"
    /\ Len(h.data) = 2 /\ Len(last.h.data) = 1
    /\ MlenField = 8 /\ Len(res.bytes) = 28

\* ------------------------------------------------------------ C3
\* C3: every successful output starts with the 20-byte preamble: tag, three
\* zero bytes, Count() in 8 bytes little-endian, the precision, three zero
\* bytes, the payload length in 4 bytes little-endian.
C3_Preamble ==
    Successful =>
        /\ Len(res.bytes) >= PreambleLen
        /\ Tag \in DenseTags \cup ExplicitTags
        /\ \A i \in {2, 3, 4, 14, 15, 16} : res.bytes[i] = 0
        /\ CardField = Count(last.h)
        /\ \A i \in 5..12 : res.bytes[i] \in 0..255
        /\ PField = last.h.p
        /\ MlenField = Len(res.bytes) - PreambleLen
        /\ res.kind = "dense" => Len(res.bytes) = PreambleLen + 1 + (6 * h.m) \div 8
        /\ res.kind = "explicit" => Len(res.bytes) = PreambleLen + 4 * Len(h.data)

\* an explicit and multi-byte-cardinality output
C3_Witness ==
    /\ Successful /\ res.kind = "explicit"
    /\ Count(last.h) > 65535 /\ res.bytes[8] # 0
    /\ Len(h.data) >= 1

\* ------------------------------------------------------------ C4
\* C4: after a dense conversion, the 6 bits at bit offset r*6 of the payload
\* are the source's value of register r, for every r below m (0 when the
\* source lists none), and rewriting one register (here with the complement
\* of its value, which flips all of its 6 bits) leaves every other
\* register's bits as they were.
C4_DenseRoundTrip ==
    (Successful /\ res.kind = "dense") =>
        LET pay == Payload
            regs == 0..(h.m - 1)
        IN  /\ \A r \in regs : ReadRegister(pay, r) = RegisterValue(h, r)
            /\ \A r \in DenseIdx(h.m) :
                  LET v == 63 - RegisterValue(h, r)
                      q == setDensePipelineRegister(
                               [bytes |-> pay, touched |-> {}, panic |-> FALSE], r, v).bytes
                  IN \A r2 \in regs :
                        ReadRegister(q, r2) = IF r2 = r THEN v ELSE RegisterValue(h, r2)

\* a dense-backed source with neighbouring registers 63, 37, 63, written
\* densely
C4_Witness ==
    /\ Successful /\ res.kind = "dense" /\ ~h.sparse
    /\ h.data[1] = 63 /\ h.data[2] = 37 /\ h.data[3] = 63 /\ h.data[h.m] = 63

\* a sparse-backed source of three registers, written densely
C4_WitnessSparse ==
    /\ Successful /\ res.kind = "dense" /\ h.sparse /\ Len(h.data) >= 3

FullDense ==
    /\ Tag \in DenseTags
    /\ res.kind = "dense"
    /\ Len(Payload) = 1 + (6 * h.m + 7) \div 8
    /\ \A r \in 0..(h.m - 1) : ReadRegister(Payload, r) = RegisterValue(h, r)

\* C6: the output is dense whenever the source is dense-backed or
\* alwaysWriteDense is set (every revision) or, in the revision that has
\* maxExplicitRegisters, the sparse-backed source holds more registers than
\* that; on overflow the dense payload comes from a second, full traversal
\* and holds every register, also those the abandoned attempt never read.
C6_DenseWhenRequired ==
    Successful =>
        /\ (~last.h.sparse \/ alwaysWriteDense) => (FullDense /\ res.traversals = 1)
        /\ (revision = Rev3 /\ last.h.sparse /\ Len(h.data) > maxExplicitRegisters)
              => FullDense
        /\ (revision = Rev3 /\ last.h.sparse /\ ~alwaysWriteDense
              /\ Len(h.data) > maxExplicitRegisters) => res.traversals = 2

\* overflow: more registers than the threshold, the attempt abandoned
C6_Witness ==
    /\ Successful /\ revision = Rev3 /\ last.h.sparse /\ ~alwaysWriteDense
    /\ Len(h.data) > maxExplicitRegisters
    /\ res.kind = "dense" /\ res.traversals = 2

\* ------------------------------------------------------------ C7
\* C7: a sparse-backed source with at most maxExplicitRegisters registers,
\* exactly maxExplicitRegisters included, and alwaysWriteDense off is written
\* in explicit mode with all of its registers.
C7_ExplicitUpToMax ==
    (Successful /\ revision = Rev3 /\ last.h.sparse /\ ~alwaysWriteDense
        /\ Len(h.data) <= maxExplicitRegisters)
    => (res.kind = "explicit" /\ Tag \in ExplicitTags /\ WordCount = Len(h.data))

\* ------------------------------------------------------------ C8
\* a write of the last call was rejected by the sink
WriteFailed == called /\ last.failAt > 0 /\ res.writes >= last.failAt

LogicalValue(e, r) ==
    IF e.sparse
    THEN LET vs == { e.data[i].val : i \in { j \in 1..Len(e.data) : e.data[j].reg = r } }
                   \cup { x.val : x \in { y \in e.tmpSet : y.reg = r } }
         IN IF vs = {} THEN 0 ELSE CHOOSE v \in vs : \A w \in vs : w <= v
    ELSE e.data[r + 1]

\* two calls in a row with the same flags return the same bytes and error
SameAgain ==
    (last.prev.called /\ last.prev.dirty = last.dirty)
    => (res.bytes = last.prev.bytes /\ res.isNil = last.prev.isNil
        /\ res.err = last.prev.err)

DenseAllocated == called /\ res.alloc > 0

=============================================================================
